---- MODULE Spec2Model ----
(***************************************************************************)
(* tap-db2 discovery: the catalog queries, the reconciliation of tables,   *)
(* columns and primary keys, the mapping of a column's native type to a    *)
(* schema fragment, and the assembly of catalog entries.                   *)
(*                                                                         *)
(* Text that goes through str.lower() or str.format() is a sequence of     *)
(* one-character strings; fixed program literals that are only compared    *)
(* (inclusion states, JSON type names, exception names) are TLA+ strings.  *)
(* Python integers are unbounded: they are kept as sequences of base-10000 *)
(* digits, least significant digit first.                                  *)
(***************************************************************************)
EXTENDS Integers, Sequences, FiniteSets, TLC

VARIABLES
    \* schemas._for_column called on its own: its arguments and its outcome
    col, pk_columns, fragment,
    \* _update_entry_for_table_type called on its own: its arguments
    catalog_entry, table_type,
    \* discover: the generator of the running query (created, entered,
    \* streaming, suspended, closed), the rows its cursor has yielded, the
    \* cursors that are open, and the queries in the order their cursors
    \* were opened
    gen, rows, open, opened,
    \* the locals under construction in _find_tables, _find_columns and
    \* _find_primary_keys
    tbls, cols, keys,
    \* discover's locals, the number of groups already assembled, and the
    \* exception that left discover
    tables, columns, pks, gi, entries, error,
    \* where the running call is
    pc

mapperVars == <<col, pk_columns, fragment>>
tableTypeVars == <<catalog_entry, table_type>>
cursorVars == <<gen, rows, open, opened>>
reconcilerVars == <<tbls, cols, keys, tables, columns, pks>>
assemblerVars == <<gi, entries, error>>
discoverVars == <<cursorVars, reconcilerVars, assemblerVars>>
vars == <<mapperVars, tableTypeVars, discoverVars, pc>>

(***************************************************************************)
(* Bounds of the explored inputs.                                          *)
(***************************************************************************)
MaxLength == 2
MaxPrecision == 3
MaxScale == 2
MaxTableRows == 2
MaxColumnRows == 3
MaxKeyRows == 2

(***************************************************************************)
(* Text.                                                                   *)
(***************************************************************************)
LowerAlphabet == <<"a","b","c","d","e","f","g","h","i","j","k","l","m","n","o","p","q","r","s","t","u","v","w","x","y","z">>
UpperAlphabet == <<"A","B","C","D","E","F","G","H","I","J","K","L","M","N","O","P","Q","R","S","T","U","V","W","X","Y","Z">>

\* str.lower() on one character
LowerChar(c) ==
    IF \E i \in DOMAIN UpperAlphabet : UpperAlphabet[i] = c
    THEN LowerAlphabet[CHOOSE i \in DOMAIN UpperAlphabet : UpperAlphabet[i] = c]
    ELSE c

\* str.lower()
Lower(s) == [i \in DOMAIN s |-> LowerChar(s[i])]

s_smallint == <<"s","m","a","l","l","i","n","t">>
s_integer == <<"i","n","t","e","g","e","r">>
s_bigint == <<"b","i","g","i","n","t">>
s_float == <<"f","l","o","a","t">>
s_decfloat == <<"d","e","c","f","l","o","a","t">>
s_decimal == <<"d","e","c","i","m","a","l">>
s_numeric == <<"n","u","m","e","r","i","c">>
s_char == <<"c","h","a","r">>
s_varchar == <<"v","a","r","c","h","a","r">>
s_date == <<"d","a","t","e">>
s_timestmp == <<"t","i","m","e","s","t","m","p">>
s_time == <<"t","i","m","e">>
s_UnsupportedDataType == <<"U","n","s","u","p","p","o","r","t","e","d"," ","d","a","t","a"," ","t","y","p","e"," ">>

(***************************************************************************)
(* Python values: None, exceptions, numbers.                               *)
(***************************************************************************)
\* An optional integer is None or Some(n).
None == << >>
Some(n) == <<n>>
IsNone(v) == v = << >>

\* The outcome of a call: a value, or an exception leaving it.
Ok(v) == [ok |-> TRUE, val |-> v]
Raise(e) == [ok |-> FALSE, exc |-> e]
NotCalled == [ok |-> FALSE, exc |-> "not called"]

\* Drops the zero digits at the most significant end.
RECURSIVE Normalize(_)
Normalize(mag) ==
    IF Len(mag) > 1 /\ mag[Len(mag)] = 0
    THEN Normalize(SubSeq(mag, 1, Len(mag) - 1))
    ELSE mag

\* The digits of mag * k + carry.
RECURSIVE MulDigits(_, _, _)
MulDigits(mag, k, carry) ==
    IF mag = << >>
    THEN IF carry = 0 THEN << >>
         ELSE <<carry % 10000>> \o MulDigits(<< >>, k, carry \div 10000)
    ELSE LET p == Head(mag) * k + carry
         IN  <<p % 10000>> \o MulDigits(Tail(mag), k, p \div 10000)

\* The digits of base^e, e >= 0, four factors at a time (base <= 10).
RECURSIVE PowDigits(_, _)
PowDigits(base, e) ==
    IF e = 0 THEN <<1>>
    ELSE IF e >= 4 THEN MulDigits(PowDigits(base, e - 4), base ^ 4, 0)
    ELSE MulDigits(PowDigits(base, e - 1), base, 0)

\* The digits of mag - 1, mag >= 1.
RECURSIVE DecDigits(_)
DecDigits(mag) ==
    IF Head(mag) > 0
    THEN <<Head(mag) - 1>> \o Tail(mag)
    ELSE <<9999>> \o DecDigits(Tail(mag))

\* A Python number: an int is num/1; 10 ** e for e < 0 is the float 1/den.
PyInt(isneg, mag) == [float |-> FALSE, neg |-> isneg, num |-> mag, den |-> <<1>>]
PyZero == PyInt(FALSE, <<0>>)
PyOne == PyInt(FALSE, <<1>>)

\* base ** e
PyPow(base, e) ==
    IF e >= 0
    THEN PyInt(FALSE, PowDigits(base, e))
    ELSE [float |-> TRUE, neg |-> FALSE, num |-> <<1>>, den |-> PowDigits(base, 0 - e)]

\* -x
PyNeg(x) == IF x.num = <<0>> THEN x ELSE [x EXCEPT !.neg = ~x.neg]

\* a - b, for the two shapes the program uses: 0 - b, and a - 1 with a >= 1.
PySub(a, b) ==
    IF a = PyZero THEN PyNeg(b)
    ELSE PyInt(FALSE, Normalize(DecDigits(a.num)))

(***************************************************************************)
(* singer.catalog.Schema: an object whose attributes are None until set.   *)
(* A Schema is the function from the names of its set attributes to their  *)
(* values.                                                                 *)
(***************************************************************************)
SetAttr(obj, name, value) ==
    (name :> value) @@ obj

HasAttr(obj, name) == name \in DOMAIN obj

(***************************************************************************)
(* schemas.py                                                              *)
(***************************************************************************)
BYTES_FOR_INTEGER_TYPE == (s_smallint :> 2) @@ (s_integer :> 4) @@ (s_bigint :> 8)
FLOAT_TYPES == {s_float, s_decfloat}
DECIMAL_TYPES == {s_decimal, s_numeric}
STRING_TYPES == {s_char, s_varchar}
DATETIME_TYPES == {s_date, s_timestmp, s_time}

\* The membership test without lower-casing either side.
InclusionCaseSensitive(c, pkcols) ==
    IF c.column_name \in {pkcols[i] : i \in DOMAIN pkcols}
    THEN "automatic"
    ELSE "available"

\* inclusion = "available"; "automatic" if the lower-cased column name is
\* among the lower-cased primary-key names
Inclusion(c, pkcols) ==
    IF Lower(c.column_name) \in {Lower(pkcols[i]) : i \in DOMAIN pkcols}
    THEN "automatic"
    ELSE "available"

\* The integer branch taking the range of the unsigned type.
IntegerFragmentUnsigned(result, data_type) ==
    LET bits == BYTES_FOR_INTEGER_TYPE[data_type] * 8
        r1 == SetAttr(result, "type", <<"null", "integer">>)
        r2 == SetAttr(r1, "minimum", PySub(PyZero, PyPow(2, bits)))
    IN  Ok(SetAttr(r2, "maximum", PySub(PyPow(2, bits), PyOne)))

\* the integer branch
IntegerFragment(result, data_type) ==
    LET bits == BYTES_FOR_INTEGER_TYPE[data_type] * 8
        r1 == SetAttr(result, "type", <<"null", "integer">>)
        r2 == SetAttr(r1, "minimum", PySub(PyZero, PyPow(2, bits - 1)))
    IN  Ok(SetAttr(r2, "maximum", PySub(PyPow(2, bits - 1), PyOne)))

\* The decimal branch with the bounds under the scale test's else.
DecimalFragmentBoundsInElse(result, c) ==
    LET scale == c.numeric_scale
        precision == c.numeric_precision
        bound == PyPow(10, precision[1] - scale[1])
    IN  IF IsNone(scale) \/ IsNone(precision)
        THEN Raise("TypeError")
        ELSE IF scale = Some(0)
        THEN Ok(SetAttr(result, "type", <<"null", "integer">>))
        ELSE Ok(SetAttr(SetAttr(SetAttr(SetAttr(SetAttr(SetAttr(result,
                 "type", <<"null", "number">>),
                 "multipleOf", PyPow(10, 0 - scale[1])),
                 "exclusiveMaximum", TRUE),
                 "maximum", bound),
                 "exclusiveMinimum", TRUE),
                 "minimum", PyNeg(bound)))

\* the decimal branch; arithmetic on None raises TypeError, and
\* None == 0 is False
DecimalFragment(result, c) ==
    LET scale == c.numeric_scale
        precision == c.numeric_precision
        typed == IF scale = Some(0)
                 THEN SetAttr(result, "type", <<"null", "integer">>)
                 ELSE SetAttr(SetAttr(result, "type", <<"null", "number">>),
                              "multipleOf", PyPow(10, 0 - scale[1]))
        bound == PyPow(10, precision[1] - scale[1])
    IN  IF IsNone(scale) \/ IsNone(precision)
        THEN Raise("TypeError")
        ELSE Ok(SetAttr(SetAttr(SetAttr(SetAttr(typed,
                 "exclusiveMaximum", TRUE),
                 "maximum", bound),
                 "exclusiveMinimum", TRUE),
                 "minimum", PyNeg(bound)))

\* the string branch; None > 0 raises TypeError
StringFragment(result, c) ==
    LET length == c.character_maximum_length
        typed == SetAttr(result, "type", <<"null", "string">>)
    IN  IF IsNone(length) THEN Raise("TypeError")
        ELSE IF length[1] > 0 THEN Ok(SetAttr(typed, "maxLength", length[1]))
        ELSE Ok(typed)

\* the else branch: a new Schema with no type
UnsupportedFragment(data_type) ==
    Ok([inclusion |-> "unsupported",
        description |-> s_UnsupportedDataType \o data_type])

for_column(c, pkcols) ==
    LET data_type == Lower(c.data_type)
        result == [inclusion |-> Inclusion(c, pkcols)]
    IN  IF data_type \in DOMAIN BYTES_FOR_INTEGER_TYPE
            THEN IntegerFragment(result, data_type)
        ELSE IF data_type \in FLOAT_TYPES
            THEN Ok(SetAttr(result, "type", <<"null", "number">>))
        ELSE IF data_type \in DECIMAL_TYPES
            THEN DecimalFragment(result, c)
        ELSE IF data_type \in STRING_TYPES
            THEN StringFragment(result, c)
        ELSE IF data_type \in DATETIME_TYPES
            THEN Ok(SetAttr(SetAttr(result, "type", <<"null", "string">>),
                            "format", "date-time"))
        ELSE UnsupportedFragment(data_type)

\* generate(columns, pk_columns): a later column of the same name replaces
\* an earlier one; an exception of _for_column leaves generate
RECURSIVE GenerateProperties(_, _, _)
GenerateProperties(props, cs, pkcols) ==
    IF cs = << >> THEN Ok(props)
    ELSE LET f == for_column(Head(cs), pkcols)
         IN  IF f.ok
             THEN GenerateProperties(SetAttr(props, Head(cs).column_name, f.val),
                                     Tail(cs), pkcols)
             ELSE f

EmptyDict == [k \in {} |-> 0]

generate(cs, pkcols) ==
    LET props == GenerateProperties(EmptyDict, cs, pkcols)
    IN  IF props.ok
        THEN Ok([type |-> "object", properties |-> props.val])
        ELSE props

(***************************************************************************)
(* discovery/__init__.py: records and the reconciler's pure parts.         *)
(***************************************************************************)
s_ID == <<"I","D">>
s_id == <<"i","d">>
s_Name == <<"N","a","m","e">>
s_NAME == <<"N","A","M","E">>
s_S1 == <<"S","1">>
s_S2 == <<"S","2">>
s_T == <<"T">>
s_V == <<"V">>
s_A == <<"A">>
s_L == <<"L">>
s_M == <<"M">>
s_P == <<"P">>
s_X == <<"X">>
s_dash == <<"-">>
s_Alias == <<"A","l","i","a","s">>
s_LogicalFile == <<"L","o","g","i","c","a","l"," ","f","i","l","e">>
s_MaterializedQueryTable == <<"M","a","t","e","r","i","a","l","i","z","e","d"," ","q","u","e","r","y"," ","t","a","b","l","e">>
s_PhysicalFile == <<"P","h","y","s","i","c","a","l"," ","f","i","l","e">>
s_Unknown == <<"U","n","k","n","o","w","n">>
s_UnsupportedTableType == <<"U","n","s","u","p","p","o","r","t","e","d"," ","t","a","b","l","e"," ","t","y","p","e"," ">>

\* Table(*rec): a namedtuple of three fields; another arity is a TypeError.
Table(rec) ==
    IF Len(rec) = 3
    THEN Ok([table_schema |-> rec[1], table_name |-> rec[2], table_type |-> rec[3]])
    ELSE Raise("TypeError")

\* Column(*rec): a namedtuple of seven fields.
Column(rec) ==
    IF Len(rec) = 7
    THEN Ok([table_schema |-> rec[1], table_name |-> rec[2],
             column_name |-> rec[3], data_type |-> rec[4],
             character_maximum_length |-> rec[5],
             numeric_precision |-> rec[6], numeric_scale |-> rec[7]])
    ELSE Raise("TypeError")

\* getattr on a namedtuple: a name that is no field is an AttributeError.
GetAttr(obj, name) ==
    IF name \in DOMAIN obj THEN Ok(obj[name]) ELSE Raise("AttributeError")

table_id(t) == <<t.table_schema, t.table_name>>

\* {_table_id(t): t for t in tbls}: a later row of the same id replaces an
\* earlier one
RECURSIVE TablesById(_, _)
TablesById(d, tabs) ==
    IF tabs = << >> THEN d
    ELSE TablesById(SetAttr(d, table_id(Head(tabs)), Head(tabs)), Tail(tabs))

\* The filter keeping the rows of the same table name, whatever the schema.
KeepColumnByTableName(c, tabs) ==
    \E k \in DOMAIN tabs : k[2] = c.table_name

\* the filter of _find_columns: (c.table_schema, c.table_name) in tables
KeepColumn(c, tabs) == <<c.table_schema, c.table_name>> \in DOMAIN tabs

\* Python's order on the characters used here (code points).
CodePoints ==
    <<" ", "(", ")", "-", "0", "1", "2", "3", "4", "5", "6", "7", "8", "9">>
    \o UpperAlphabet \o LowerAlphabet
Ord(c) == CHOOSE i \in DOMAIN CodePoints : CodePoints[i] = c

\* a < b on str
RECURSIVE StrLess(_, _)
StrLess(a, b) ==
    IF b = << >> THEN FALSE
    ELSE IF a = << >> THEN TRUE
    ELSE IF Head(a) = Head(b) THEN StrLess(Tail(a), Tail(b))
    ELSE Ord(Head(a)) < Ord(Head(b))

\* a < b on the 2-tuples (ordinal_pos, column_name)
PairLess(a, b) == a[1] < b[1] \/ (a[1] = b[1] /\ StrLess(a[2], b[2]))

\* sorted(v): stable, ascending
RECURSIVE Insert(_, _)
Insert(sorted, x) ==
    IF sorted = << >> THEN <<x>>
    ELSE IF PairLess(x, Head(sorted)) THEN <<x>> \o sorted
    ELSE <<Head(sorted)>> \o Insert(Tail(sorted), x)

RECURSIVE Sorted(_)
Sorted(v) ==
    IF v = << >> THEN << >>
    ELSE Insert(Sorted(SubSeq(v, 1, Len(v) - 1)), v[Len(v)])

\* [x[1] for x in sorted(v)]
KeyNames(v) == LET sv == Sorted(v) IN [i \in DOMAIN sv |-> sv[i][2]]

\* the loop body of _find_primary_keys on one well-formed row
AddKey(ks, tabs, row) ==
    LET tid == <<row[1], row[2]>>
        pair == <<row[4], row[3]>>
    IN  IF tid \notin DOMAIN tabs THEN ks
        ELSE IF tid \notin DOMAIN ks THEN SetAttr(ks, tid, <<pair>>)
        ELSE SetAttr(ks, tid, Append(ks[tid], pair))

\* itertools.groupby(columns, _table_id): the runs of consecutive columns
\* of equal table id, each with its key
RECURSIVE GroupBy(_)
GroupBy(cs) ==
    IF cs = << >> THEN << >>
    ELSE LET rest == GroupBy(Tail(cs))
             k == table_id(Head(cs))
         IN  IF rest # << >> /\ rest[1].key = k
             THEN <<[key |-> k, cols |-> <<Head(cs)>> \o rest[1].cols]>> \o Tail(rest)
             ELSE <<[key |-> k, cols |-> <<Head(cs)>>]>> \o rest

(***************************************************************************)
(* The entry assembler.                                                    *)
(***************************************************************************)
\* singer.metadata: the compiled metadata is kept as the list of
\* [breadcrumb, metadata] pairs in the order their breadcrumbs were first
\* written, which is the list to_list returns.
MetadataIndex(mdata, breadcrumb) ==
    {i \in DOMAIN mdata : mdata[i].breadcrumb = breadcrumb}

\* singer.metadata.write(mdata, breadcrumb, k, val)
MetadataWrite(mdata, breadcrumb, k, val) ==
    IF MetadataIndex(mdata, breadcrumb) # {}
    THEN LET i == CHOOSE j \in MetadataIndex(mdata, breadcrumb) : TRUE
         IN  [mdata EXCEPT ![i].metadata = SetAttr(@, k, val)]
    ELSE Append(mdata, [breadcrumb |-> breadcrumb, metadata |-> (k :> val)])

\* the loop of _create_column_metadata; Column has no field column_type
RECURSIVE WriteColumnMetadata(_, _, _)
WriteColumnMetadata(mdata, cs, schema) ==
    IF cs = << >> THEN Ok(mdata)
    ELSE LET c == Head(cs)
             col_schema == schema.properties[c.column_name]
             m1 == MetadataWrite(mdata, <<"properties", c.column_name>>,
                                 "selected-by-default",
                                 col_schema.inclusion # "unsupported")
             column_type == GetAttr(c, "column_type")
         IN  IF ~column_type.ok THEN column_type
             ELSE WriteColumnMetadata(
                      MetadataWrite(m1, <<"properties", c.column_name>>,
                                    "sql-datatype", Lower(column_type.val)),
                      Tail(cs), schema)

create_column_metadata(cs, schema) ==
    WriteColumnMetadata(MetadataWrite(<< >>, << >>, "selected-by-default", FALSE),
                        cs, schema)

KnownTypes ==
    (s_A :> s_Alias) @@ (s_L :> s_LogicalFile)
    @@ (s_M :> s_MaterializedQueryTable) @@ (s_P :> s_PhysicalFile)

\* The policy with the hint looked up but the inclusion left as it was.
update_entry_description_only(entry, ttype) ==
    LET viewed == SetAttr(entry, "is_view", ttype = s_V)
        hint == IF ttype \in DOMAIN KnownTypes THEN KnownTypes[ttype] ELSE s_Unknown
        err == s_UnsupportedTableType \o ttype \o <<" ", "(">> \o hint \o <<")">>
    IN  IF ttype \notin {s_T, s_V}
        THEN SetAttr(viewed, "schema", SetAttr(viewed.schema, "description", err))
        ELSE viewed

update_entry_for_table_type(entry, ttype) ==
    LET viewed == SetAttr(entry, "is_view", ttype = s_V)
        hint == IF ttype \in DOMAIN KnownTypes THEN KnownTypes[ttype] ELSE s_Unknown
        err == s_UnsupportedTableType \o ttype \o <<" ", "(">> \o hint \o <<")">>
    IN  IF ttype \notin {s_T, s_V}
        THEN SetAttr(viewed, "schema",
                 SetAttr(SetAttr(viewed.schema, "inclusion", "unsupported"),
                         "description", err))
        ELSE viewed

\* CatalogEntry(database=, table=, stream=, metadata=, tap_stream_id=, schema=)
CatalogEntry(tid, mdata, schema) ==
    [database |-> tid[1], table |-> tid[2], stream |-> tid[2],
     metadata |-> mdata,
     tap_stream_id |-> tid[1] \o s_dash \o tid[2],
     schema |-> schema]

\* the body of discover's loop for one group
EntryFor(tid, cs, tabs, pkmap) ==
    LET pkcols == IF tid \in DOMAIN pkmap THEN pkmap[tid] ELSE << >>
        schema == generate(cs, pkcols)
        mdata == create_column_metadata(cs, schema.val)
        entry == CatalogEntry(tid, mdata.val, schema.val)
        keyed == IF tid \in DOMAIN pkmap
                 THEN SetAttr(entry, "key_properties", pkmap[tid])
                 ELSE entry
    IN  IF ~schema.ok THEN schema
        ELSE IF ~mdata.ok THEN mdata
        ELSE Ok(update_entry_for_table_type(keyed, tabs[tid].table_type))

(***************************************************************************)
(* Inputs of the type mapper.                                              *)
(***************************************************************************)

NativeTypes ==
    { s_smallint, <<"S","M","A","L","L","I","N","T">>,
      <<"I","n","t","e","g","e","r">>, <<"B","I","G","I","N","T">>,
      s_float, <<"D","e","c","F","l","o","a","t">>,
      <<"D","E","C","I","M","A","L">>, <<"N","u","m","e","r","i","c">>,
      <<"C","h","a","r">>, <<"V","A","R","C","H","A","R">>, s_varchar,
      s_date, <<"T","I","M","E","S","T","M","P">>, s_time,
      <<"F","L","O","O","G","L","E">>,
      <<"t","i","m","e","s","t","a","m","p">> }

Lengths == {None} \cup {Some(n) : n \in -1..MaxLength}
Precisions == {None} \cup {Some(n) : n \in 0..MaxPrecision} \cup {Some(10)}
Scales == {None} \cup {Some(n) : n \in 0..MaxScale}

MapperColumns ==
    [table_schema : {s_S1}, table_name : {s_T},
     column_name : {s_ID, s_Name},
     data_type : NativeTypes,
     character_maximum_length : Lengths,
     numeric_precision : Precisions,
     numeric_scale : Scales]

MapperKeys == { << >>, <<s_id>>, <<s_NAME, s_ID>> }

(***************************************************************************)
(* What the three cursors can yield.  The first row of each set of         *)
(* malformed rows has the wrong number of fields.                          *)
(***************************************************************************)
TableIds == {<<s_S1, s_T>>, <<s_S2, s_T>>}

s_SMALLINT == <<"S","M","A","L","L","I","N","T">>
s_FLOOGLE == <<"F","L","O","O","G","L","E">>

\* the tables query selects table_type in ('T', 'V')
TableRows == {<<id[1], id[2], ty>> : id \in TableIds, ty \in {s_T, s_V}}
MalformedTableRows == {<<s_S1, s_T>>}

ColumnRows ==
    {<<id[1], id[2], s_ID, s_SMALLINT, None, Some(5), Some(0)>> : id \in TableIds}
    \cup {<<id[1], id[2], s_NAME, s_FLOOGLE, None, None, None>> : id \in TableIds}
MalformedColumnRows == {<<s_S1, s_T, s_ID>>}

KeyRows ==
    {<<id[1], id[2], s_ID, 2>> : id \in TableIds}
    \cup {<<id[1], id[2], s_NAME, 1>> : id \in TableIds}
MalformedKeyRows == {<<s_S1, s_T, s_ID>>}

NoError == [exc |-> "none", raised_in |-> "none"]

MapperIdle ==
    /\ col = << >>
    /\ pk_columns = << >>
    /\ fragment = NotCalled

TableTypeIdle ==
    /\ catalog_entry = EmptyDict
    /\ table_type = << >>

DiscoverIdle ==
    /\ gen = "created"
    /\ rows = << >>
    /\ open = {}
    /\ opened = << >>
    /\ tbls = << >>
    /\ cols = << >>
    /\ keys = EmptyDict
    /\ tables = EmptyDict
    /\ columns = << >>
    /\ pks = EmptyDict
    /\ gi = 0
    /\ entries = << >>
    /\ error = NoError

(***************************************************************************)
(* The type mapper on its own: one call of _for_column.                    *)
(***************************************************************************)
MapInit ==
    /\ col \in MapperColumns
    /\ pk_columns \in MapperKeys
    /\ fragment = NotCalled
    /\ pc = "map"
    /\ TableTypeIdle
    /\ DiscoverIdle

MapColumn ==
    /\ pc = "map"
    /\ fragment' = for_column(col, pk_columns)
    /\ pc' = "mapped"
    /\ UNCHANGED <<col, pk_columns, tableTypeVars, discoverVars>>

MapNext == MapColumn

SpecMap == MapInit /\ [][MapNext]_vars

(***************************************************************************)
(* The table-type policy on its own: one call of                           *)
(* _update_entry_for_table_type on an entry built as discover builds it.   *)
(***************************************************************************)
TableTypes == {s_T, s_V, s_A, s_L, s_M, s_P, s_X, <<"t">>, <<"v">>, <<"l">>}

TableTypeColumns ==
    { <<[table_schema |-> id[1], table_name |-> id[2], column_name |-> n,
         data_type |-> ty, character_maximum_length |-> Some(0),
         numeric_precision |-> Some(5), numeric_scale |-> Some(0)]>> :
      id \in TableIds, n \in {s_ID, s_NAME},
      ty \in {s_SMALLINT, s_FLOOGLE, s_varchar} }

TableTypeEntries ==
    LET plain == { CatalogEntry(table_id(cs[1]),
                                <<[breadcrumb |-> << >>,
                                   metadata |-> [selected |-> FALSE]]>>,
                                generate(cs, << >>).val) : cs \in TableTypeColumns }
    IN  plain \cup { SetAttr(e, "key_properties", <<s_ID>>) : e \in plain }

TableTypeInit ==
    /\ catalog_entry \in TableTypeEntries
    /\ table_type \in TableTypes
    /\ pc = "update"
    /\ MapperIdle
    /\ DiscoverIdle

UpdateEntry ==
    /\ pc = "update"
    /\ catalog_entry' = update_entry_for_table_type(catalog_entry, table_type)
    /\ pc' = "updated"
    /\ UNCHANGED <<table_type, mapperVars, discoverVars>>

TableTypeNext == UpdateEntry

SpecTableType == TableTypeInit /\ [][TableTypeNext]_vars

(***************************************************************************)
(* discover(config).  Each _query_* is a generator holding its cursor in a *)
(* with block: the cursor is opened when the consumer asks for the first   *)
(* row, and released when the generator's with block is left, which is at  *)
(* exhaustion, at an exception raised inside the generator, or when a      *)
(* suspended generator is finalized.                                       *)
(***************************************************************************)
\* common.get_cursor(config) as a context manager: entering it opens a
\* cursor, leaving it (normally or by an exception) releases that cursor.
Acquire(cursors, q) == cursors \cup {q}
Release(cursors, q) == cursors \ {q}

Finding == pc \in {"find_tables", "find_columns", "find_primary_keys"}

Query ==
    CASE pc = "find_tables" -> "tables"
      [] pc = "find_columns" -> "columns"
      [] pc = "find_primary_keys" -> "primary_keys"

Fail(exc, where) ==
    /\ pc' = "failed"
    /\ error' = [exc |-> exc, raised_in |-> where]

DiscoverInit ==
    /\ pc = "find_tables"
    /\ DiscoverIdle
    /\ MapperIdle
    /\ TableTypeIdle

\* get_cursor(config) raises: no cursor was opened
ConnectFails ==
    /\ Finding /\ gen = "created"
    /\ gen' = "closed"
    /\ Fail("DatabaseError", "cursor")
    /\ UNCHANGED <<rows, open, opened, reconcilerVars, gi, entries,
                   mapperVars, tableTypeVars>>

\* with get_cursor(config) as cursor
OpenCursor ==
    /\ Finding /\ gen = "created"
    /\ gen' = "entered"
    /\ open' = Acquire(open, Query)
    /\ opened' = Append(opened, Query)
    /\ rows' = << >>
    /\ UNCHANGED <<reconcilerVars, assemblerVars, mapperVars, tableTypeVars, pc>>

\* cursor.execute(...)
Execute ==
    /\ Finding /\ gen = "entered"
    /\ gen' = "streaming"
    /\ UNCHANGED <<rows, open, opened, reconcilerVars, assemblerVars,
                   mapperVars, tableTypeVars, pc>>

\* cursor.execute(...) raises: the with block is left, then the consumer
ExecuteFails ==
    /\ Finding /\ gen = "entered"
    /\ gen' = "closed"
    /\ open' = Release(open, Query)
    /\ Fail("DatabaseError", "cursor")
    /\ UNCHANGED <<rows, opened, reconcilerVars, gi, entries,
                   mapperVars, tableTypeVars>>

\* yield from cursor: the iteration raises
FetchFails ==
    /\ Finding /\ gen = "streaming"
    /\ gen' = "closed"
    /\ open' = Release(open, Query)
    /\ Fail("DatabaseError", "cursor")
    /\ UNCHANGED <<rows, opened, reconcilerVars, gi, entries,
                   mapperVars, tableTypeVars>>

\* tbls = [Table(*rec) for rec in results], one row
TablesRow ==
    /\ pc = "find_tables" /\ gen = "streaming"
    /\ Len(rows) < MaxTableRows
    /\ \E rec \in TableRows \cup MalformedTableRows :
          /\ rows' = Append(rows, rec)
          /\ LET t == Table(rec)
             IN  IF t.ok
                 THEN /\ tbls' = Append(tbls, t.val)
                      /\ UNCHANGED <<gen, pc, error>>
                 ELSE /\ gen' = "suspended"
                      /\ Fail(t.exc, "consumer")
                      /\ UNCHANGED tbls
    /\ UNCHANGED <<open, opened, cols, keys, tables, columns, pks, gi, entries,
                   mapperVars, tableTypeVars>>

\* the tables cursor is exhausted; return {_table_id(t): t for t in tbls}
TablesDone ==
    /\ pc = "find_tables" /\ gen = "streaming"
    /\ open' = Release(open, "tables")
    /\ tables' = TablesById(EmptyDict, tbls)
    /\ tbls' = << >>
    /\ pc' = "find_columns"
    /\ gen' = "created"
    /\ UNCHANGED <<rows, opened, cols, keys, columns, pks, assemblerVars,
                   mapperVars, tableTypeVars>>

\* [c for c in cols if (c.table_schema, c.table_name) in tables], one row
ColumnsRow ==
    /\ pc = "find_columns" /\ gen = "streaming"
    /\ Len(rows) < MaxColumnRows
    /\ \E rec \in ColumnRows \cup MalformedColumnRows :
          /\ rows' = Append(rows, rec)
          /\ LET c == Column(rec)
             IN  IF c.ok
                 THEN /\ cols' = IF KeepColumn(c.val, tables)
                                 THEN Append(cols, c.val)
                                 ELSE cols
                      /\ UNCHANGED <<gen, pc, error>>
                 ELSE /\ gen' = "suspended"
                      /\ Fail(c.exc, "consumer")
                      /\ UNCHANGED cols
    /\ UNCHANGED <<open, opened, tbls, keys, tables, columns, pks, gi, entries,
                   mapperVars, tableTypeVars>>

\* the columns cursor is exhausted; _find_columns returns the list
ColumnsDone ==
    /\ pc = "find_columns" /\ gen = "streaming"
    /\ open' = Release(open, "columns")
    /\ columns' = cols
    /\ cols' = << >>
    /\ pc' = "find_primary_keys"
    /\ gen' = "created"
    /\ UNCHANGED <<rows, opened, tbls, keys, tables, pks, assemblerVars,
                   mapperVars, tableTypeVars>>

\* for (table_schema, table_name, column_name, ordinal_pos) in results
PrimaryKeysRow ==
    /\ pc = "find_primary_keys" /\ gen = "streaming"
    /\ Len(rows) < MaxKeyRows
    /\ \E rec \in KeyRows \cup MalformedKeyRows :
          /\ rows' = Append(rows, rec)
          /\ IF Len(rec) = 4
             THEN /\ keys' = AddKey(keys, tables, rec)
                  /\ UNCHANGED <<gen, pc, error>>
             ELSE /\ gen' = "suspended"
                  /\ Fail("ValueError", "consumer")
                  /\ UNCHANGED keys
    /\ UNCHANGED <<open, opened, tbls, cols, tables, columns, pks, gi, entries,
                   mapperVars, tableTypeVars>>

\* the primary-keys cursor is exhausted; return the sorted names per table
PrimaryKeysDone ==
    /\ pc = "find_primary_keys" /\ gen = "streaming"
    /\ open' = Release(open, "primary_keys")
    /\ pks' = [k \in DOMAIN keys |-> KeyNames(keys[k])]
    /\ keys' = EmptyDict
    /\ pc' = "assemble"
    /\ gen' = "closed"
    /\ UNCHANGED <<rows, opened, tbls, cols, tables, columns, assemblerVars,
                   mapperVars, tableTypeVars>>

\* one pass of the loop over groupby(columns, _table_id)
BuildEntry ==
    /\ pc = "assemble"
    /\ gi < Len(GroupBy(columns))
    /\ LET g == GroupBy(columns)[gi + 1]
           e == EntryFor(g.key, g.cols, tables, pks)
       IN  IF e.ok
           THEN /\ entries' = Append(entries, e.val)
                /\ gi' = gi + 1
                /\ UNCHANGED <<pc, error>>
           ELSE /\ Fail(e.exc, "assembler")
                /\ UNCHANGED <<entries, gi>>
    /\ UNCHANGED <<cursorVars, reconcilerVars, mapperVars, tableTypeVars>>

\* return Catalog(entries)
Return ==
    /\ pc = "assemble"
    /\ gi = Len(GroupBy(columns))
    /\ pc' = "returned"
    /\ UNCHANGED <<cursorVars, reconcilerVars, assemblerVars,
                   mapperVars, tableTypeVars>>

\* A generator left suspended by an exception of its consumer is closed
\* when it is finalized, some time after discover has failed: only then is
\* its with block left.
FinalizeGenerator ==
    /\ pc = "failed" /\ gen = "suspended"
    /\ gen' = "closed"
    /\ open' = Release(open, opened[Len(opened)])
    /\ UNCHANGED <<rows, opened, reconcilerVars, assemblerVars,
                   mapperVars, tableTypeVars, pc>>

Next ==
    \/ ConnectFails
    \/ OpenCursor
    \/ Execute
    \/ ExecuteFails
    \/ FetchFails
    \/ TablesRow
    \/ TablesDone
    \/ ColumnsRow
    \/ ColumnsDone
    \/ PrimaryKeysRow
    \/ PrimaryKeysDone
    \/ BuildEntry
    \/ Return
    \/ FinalizeGenerator

Spec == DiscoverInit /\ [][Next]_vars

(***************************************************************************)
(* Properties of the type mapper, stated without the mapper's operators.   *)
(***************************************************************************)
\* Two texts equal up to the case of their letters.
SameIgnoringCase(a, b) ==
    /\ Len(a) = Len(b)
    /\ \A i \in 1..Len(a) :
          \/ a[i] = b[i]
          \/ \E j \in 1..26 : {a[i], b[i]} = {LowerAlphabet[j], UpperAlphabet[j]}

\* The attribute is set, and to this value.
AttrIs(obj, name, value) == HasAttr(obj, name) /\ obj[name] = value

IsNamed(native, names) == \E n \in names : SameIgnoringCase(native, n)

IntegerNames == {s_smallint, s_integer, s_bigint}
FamilyNames ==
    IntegerNames \cup {s_float, s_decfloat, s_decimal, s_numeric, s_char,
                       s_varchar, s_date, s_timestmp, s_time}

Mapped == pc = "mapped"

\* The digits of 10^k, k >= 0, in closed form.
TenTo(k) == [i \in 1..(k \div 4 + 1) |-> IF i = k \div 4 + 1 THEN 10 ^ (k % 4) ELSE 0]

\* The number 10^k, any k.
TenToThe(k) ==
    IF k >= 0
    THEN [float |-> FALSE, neg |-> FALSE, num |-> TenTo(k), den |-> <<1>>]
    ELSE [float |-> TRUE, neg |-> FALSE, num |-> <<1>>, den |-> TenTo(0 - k)]

\* 2^(8*bytes - 1) for the three integer types, written out in base 10000:
\* 3|2768, 21|4748|3648 and 922|3372|0368|5477|5808.
HalfRange(native) ==
    IF SameIgnoringCase(native, s_smallint) THEN <<2768, 3>>
    ELSE IF SameIgnoringCase(native, s_integer) THEN <<3648, 4748, 21>>
    ELSE <<5808, 5477, 368, 3372, 922>>

\* C5: a column of one of the five families maps to inclusion automatic
\* when its name equals, ignoring letter case, one of the primary-key names,
\* and to available otherwise; a column of any other type maps to inclusion
\* unsupported whether or not it is a primary key, with no type and the
\* description "Unsupported data type " followed by the lower-cased type.
C5_InclusionPolicy ==
    Mapped =>
        IF IsNamed(col.data_type, FamilyNames)
        THEN fragment.ok =>
                AttrIs(fragment.val, "inclusion",
                       IF \E i \in DOMAIN pk_columns :
                              SameIgnoringCase(col.column_name, pk_columns[i])
                       THEN "automatic"
                       ELSE "available")
        ELSE /\ fragment.ok
             /\ AttrIs(fragment.val, "inclusion", "unsupported")
             /\ ~HasAttr(fragment.val, "type")
             /\ AttrIs(fragment.val, "description",
                       s_UnsupportedDataType \o Lower(col.data_type))
             /\ \A i \in DOMAIN col.data_type :
                    \A j \in 1..26 :
                        fragment.val.description[Len(s_UnsupportedDataType) + i] # UpperAlphabet[j]

\* A primary-key column matched only up to letter case was mapped automatic.
C5_Witness ==
    /\ Mapped
    /\ fragment.ok
    /\ AttrIs(fragment.val, "inclusion", "automatic")
    /\ \A i \in DOMAIN pk_columns : pk_columns[i] # col.column_name

\* C7: a decimal or numeric column with integer precision and scale maps to
\* nullable integer when the scale is 0 and to nullable number otherwise,
\* multipleOf is set exactly when the scale is not 0, and both carry the
\* exclusive bounds +-10^(precision - scale): magnitude 1 for precision 0
\* and scale 0, 10^8 for precision 10 and scale 2.
C7_DecimalBounds ==
    (/\ Mapped
     /\ IsNamed(col.data_type, {s_decimal, s_numeric})
     /\ ~IsNone(col.numeric_precision)
     /\ ~IsNone(col.numeric_scale)) =>
        LET p == col.numeric_precision[1]
            sc == col.numeric_scale[1]
            f == fragment.val
        IN  /\ fragment.ok
            /\ AttrIs(f, "type", IF sc = 0 THEN <<"null", "integer">>
                                            ELSE <<"null", "number">>)
            /\ HasAttr(f, "multipleOf") <=> sc # 0
            /\ AttrIs(f, "exclusiveMaximum", TRUE)
            /\ AttrIs(f, "exclusiveMinimum", TRUE)
            /\ AttrIs(f, "maximum", TenToThe(p - sc))
            /\ AttrIs(f, "minimum", [TenToThe(p - sc) EXCEPT !.neg = TRUE])
            /\ (p = 0 /\ sc = 0) => f.maximum.num = <<1>> /\ f.minimum.num = <<1>>
            /\ (p = 10 /\ sc = 2) => f.maximum.num = <<0, 0, 1>> /\ f.minimum.num = <<0, 0, 1>>

\* A decimal column of precision 10 and scale 2 was mapped.
C7_Witness ==
    /\ Mapped
    /\ IsNamed(col.data_type, {s_decimal, s_numeric})
    /\ col.numeric_precision = Some(10)
    /\ col.numeric_scale = Some(2)
    /\ fragment.ok
    /\ HasAttr(fragment.val, "multipleOf")

\* C8: a char or varchar column maps, for every value of its optional
\* character_maximum_length, to a nullable string fragment in which
\* maxLength is present exactly when the length is greater than 0, and
\* then equals it.
C8_MaxLength ==
    (Mapped /\ IsNamed(col.data_type, {s_char, s_varchar})) =>
        LET length == col.character_maximum_length
            positive == ~IsNone(length) /\ length[1] > 0
        IN  /\ fragment.ok
            /\ AttrIs(fragment.val, "type", <<"null", "string">>)
            /\ HasAttr(fragment.val, "maxLength") <=> positive
            /\ positive => AttrIs(fragment.val, "maxLength", length[1])

\* C9: smallint, integer and bigint columns map to nullable integer with
\* minimum -2^(8*bytes - 1) and maximum 2^(8*bytes - 1) - 1, so that
\* maximum = -minimum - 1; smallint gives -32768 and 32767.
C9_IntegerRange ==
    (Mapped /\ IsNamed(col.data_type, IntegerNames)) =>
        LET f == fragment.val
            half == HalfRange(col.data_type)
        IN  /\ fragment.ok
            /\ AttrIs(f, "type", <<"null", "integer">>)
            /\ AttrIs(f, "minimum",
                      [float |-> FALSE, neg |-> TRUE, num |-> half, den |-> <<1>>])
            /\ AttrIs(f, "maximum",
                      [float |-> FALSE, neg |-> FALSE,
                       num |-> [half EXCEPT ![1] = @ - 1], den |-> <<1>>])
            /\ f.maximum = PySub(PyNeg(f.minimum), PyOne)

\* A bigint column was mapped.
C9_Witness ==
    /\ Mapped
    /\ SameIgnoringCase(col.data_type, s_bigint)
    /\ fragment.ok
    /\ Len(fragment.val.maximum.num) = 5

(***************************************************************************)
(* Properties of the table-type policy.                                    *)
(***************************************************************************)
\* sub occurs in text
Contains(text, sub) ==
    \E i \in 1..(Len(text) - Len(sub) + 1) : SubSeq(text, i, i + Len(sub) - 1) = sub

HintOf(ttype) ==
    IF ttype = s_A THEN s_Alias
    ELSE IF ttype = s_L THEN s_LogicalFile
    ELSE IF ttype = s_M THEN s_MaterializedQueryTable
    ELSE IF ttype = s_P THEN s_PhysicalFile
    ELSE s_Unknown

\* C6: the policy sets is_view to (table_type = V); for a table_type other
\* than T and V it sets the schema's inclusion to unsupported and a
\* non-empty description naming the type code and the hint (Alias, Logical
\* file, Materialized query table, Physical file, else Unknown); for T and V
\* it leaves the schema, so its inclusion and description, as they were.
C6_TableTypePolicy ==
    [][(pc = "update" /\ pc' = "updated") =>
          LET before == catalog_entry
              after == catalog_entry'
          IN  /\ AttrIs(after, "is_view", table_type = s_V)
              /\ table_type \in {s_T, s_V} => after.schema = before.schema
              /\ table_type \notin {s_T, s_V} =>
                    /\ AttrIs(after.schema, "inclusion", "unsupported")
                    /\ HasAttr(after.schema, "description")
                    /\ after.schema.description # << >>
                    /\ Contains(after.schema.description, table_type)
                    /\ Contains(after.schema.description, HintOf(table_type))
                    /\ after.schema.properties = before.schema.properties
      ]_vars

\* An entry of a logical file was marked unsupported.
C6_Witness ==
    /\ pc = "updated"
    /\ table_type = s_L
    /\ AttrIs(catalog_entry.schema, "inclusion", "unsupported")
    /\ Contains(catalog_entry.schema.description, s_LogicalFile)
    /\ AttrIs(catalog_entry, "is_view", FALSE)

(***************************************************************************)
(* Properties of discover.                                                 *)
(***************************************************************************)
RowId(rec) == <<rec[1], rec[2]>>

\* _find_columns has returned and the next cursor is not yet opened: rows
\* holds what the columns cursor yielded.
ColumnsFound == pc = "find_primary_keys" /\ gen = "created"

\* _find_primary_keys has returned: rows holds what its cursor yielded.
KeysFound == pc \in {"assemble", "returned"} \/ error.raised_in = "assembler"

\* The tables that have at least one retained column.
TablesWithColumns == {table_id(columns[i]) : i \in DOMAIN columns}

EntriesOf(tid) ==
    {i \in DOMAIN entries : <<entries[i].database, entries[i].table>> = tid}

RowsOf(tid) == SelectSeq(rows, LAMBDA rec : RowId(rec) = tid)

\* C1: whatever the three cursors yield, discover returns, with exactly one
\* entry for each table of the tables map that has a column, none for any
\* other table, and every column of the table among the entry's properties.
C1_OneEntryPerTable ==
    /\ error.raised_in # "assembler"
    /\ pc = "returned" =>
          /\ \A tid \in TablesWithColumns : Cardinality(EntriesOf(tid)) = 1
          /\ \A i \in DOMAIN entries :
                <<entries[i].database, entries[i].table>> \in TablesWithColumns
          /\ \A i \in DOMAIN columns :
                \A j \in EntriesOf(table_id(columns[i])) :
                    columns[i].column_name \in DOMAIN entries[j].schema.properties

MetadataAt(e, breadcrumb) ==
    {e.metadata[i].metadata : i \in MetadataIndex(e.metadata, breadcrumb)}

\* C2: for every group the assembler completes, and the entry's metadata
\* has selected-by-default false for the table and, for each column,
\* selected-by-default true exactly when the mapped inclusion is not
\* unsupported and sql-datatype equal to the lower-cased native type.
C2_ColumnMetadata ==
    /\ (KeysFound /\ columns # << >>) => (pc # "failed" /\ (pc = "returned" => entries # << >>))
    /\ \A i \in DOMAIN entries :
          /\ \A m \in MetadataAt(entries[i], << >>) : m["selected-by-default"] = FALSE
          /\ MetadataAt(entries[i], << >>) # {}
          /\ \A j \in DOMAIN columns :
                table_id(columns[j]) = <<entries[i].database, entries[i].table>> =>
                    LET name == columns[j].column_name
                        ms == MetadataAt(entries[i], <<"properties", name>>)
                    IN  /\ ms # {}
                        /\ \A m \in ms :
                              /\ m["selected-by-default"] =
                                    (entries[i].schema.properties[name].inclusion # "unsupported")
                              /\ m["sql-datatype"] = Lower(columns[j].data_type)

\* The ordinal positions of the rows of one table are distinct.
DistinctOrdinals(tid) ==
    \A i, j \in DOMAIN RowsOf(tid) : i # j => RowsOf(tid)[i][4] # RowsOf(tid)[j][4]

\* names lists each row of tid once, in strictly ascending ordinal position.
AscendingKeyNames(tid, names) ==
    /\ Len(names) = Len(RowsOf(tid))
    /\ \E perm \in [DOMAIN names -> DOMAIN names] :
          /\ \A i, j \in DOMAIN names : i # j => perm[i] # perm[j]
          /\ \A i \in DOMAIN names : names[i] = RowsOf(tid)[perm[i]][3]
          /\ \A i, j \in DOMAIN names :
                i < j => RowsOf(tid)[perm[i]][4] < RowsOf(tid)[perm[j]][4]

\* C3: _find_primary_keys maps a table whose rows have distinct ordinal
\* positions to its key column names in strictly ascending position, each
\* row once; and discover, for each table with columns, makes an entry whose
\* key_properties is that list when the table has primary-key rows and is
\* unset when it has none.
C3_KeyProperties ==
    /\ (pc = "assemble" /\ gi = 0) =>
          \A tid \in DOMAIN pks :
              DistinctOrdinals(tid) => AscendingKeyNames(tid, pks[tid])
    /\ (KeysFound /\ pc # "assemble") =>
          \A tid \in TablesWithColumns :
              /\ tid \in DOMAIN pks => EntriesOf(tid) # {}
              /\ \A i \in EntriesOf(tid) :
                    IF tid \in DOMAIN pks
                    THEN /\ HasAttr(entries[i], "key_properties")
                         /\ entries[i].key_properties = pks[tid]
                    ELSE ~HasAttr(entries[i], "key_properties")

WellFormed(rec, arity) == Len(rec) = arity

\* C4: every column _find_columns returns and every key of the map
\* _find_primary_keys returns has its (schema, table) in the tables map; a
\* row of an unknown table is dropped and raises nothing; no row of a known
\* table is dropped, and the retained column rows keep their order.
C4_ReferentialFilter ==
    /\ \A i \in DOMAIN columns : table_id(columns[i]) \in DOMAIN tables
    /\ \A k \in DOMAIN pks : k \in DOMAIN tables
    /\ ColumnsFound =>
          LET kept == SelectSeq(rows, LAMBDA rec : RowId(rec) \in DOMAIN tables)
          IN  /\ Len(columns) = Len(kept)
              /\ \A i \in DOMAIN kept :
                    /\ table_id(columns[i]) = RowId(kept[i])
                    /\ columns[i].column_name = kept[i][3]
                    /\ columns[i].data_type = kept[i][4]
    /\ (pc = "assemble" /\ gi = 0) =>
          /\ DOMAIN pks = {RowId(rows[i]) : i \in DOMAIN rows} \cap DOMAIN tables
          /\ \A tid \in DOMAIN pks :
                /\ Len(pks[tid]) = Len(RowsOf(tid))
                /\ \A i \in DOMAIN RowsOf(tid) :
                      \E j \in DOMAIN pks[tid] : pks[tid][j] = RowsOf(tid)[i][3]
    /\ (error.raised_in = "consumer" /\ rows # << >>) =>
          LET last == rows[Len(rows)]
          IN  ~WellFormed(last, IF opened[Len(opened)] = "tables" THEN 3
                                ELSE IF opened[Len(opened)] = "columns" THEN 7
                                ELSE 4)

\* _find_columns returned after dropping a row of an unknown table that came
\* between two rows it kept.
C4_Witness ==
    /\ ColumnsFound
    /\ Len(rows) = 3
    /\ Len(columns) = 2
    /\ RowId(rows[2]) \notin DOMAIN tables
    /\ error = NoError

\* C10: the cursors are opened in the order tables, columns, primary keys;
\* at most one is open at any time; none is open once discover has returned
\* or failed, wherever the failure came from.
C10_CursorLifetime ==
    /\ opened = SubSeq(<<"tables", "columns", "primary_keys">>, 1, Len(opened))
    /\ Cardinality(open) <= 1
    /\ pc \in {"returned", "failed"} => open = {}

====
